---- MODULE Spec2Model ----
(***************************************************************************)
(* xweathericon: the HTTP transport (http.c), the byte accessors over the  *)
(* fixed chunk buffer, and fetch_weather with its field-extraction state   *)
(* machine (xweathericon.c).  The build modelled is the Makefile's default *)
(* one: TLS=1, DEBUG off.                                                  *)
(*                                                                         *)
(* Two drivers share the state and the operators that model the code:      *)
(*   Spec     one call of fetch_weather, from http_get to its return;      *)
(*   SpecApi  a client of http.h calling the functions in any order.       *)
(* FairSpec is Spec with weak fairness on the program's next step.         *)
(* Three apply one piece of code to each of its inputs:               *)
(*   SpecIcon the end of fetch_weather, for every weather code;            *)
(*   SpecUrl  url_parse;   SpecEnc  url_encode.                            *)
(* SpecDoc is the token loop of fetch_weather over documents of many       *)
(* shapes, and SpecMain the event loop of main around fetch_weather.       *)
(***************************************************************************)
EXTENDS Integers, Sequences, FiniteSets, TLC

VARIABLES
    req,        \* struct http_request: socket, https, tls, message, url, chunk, chunk_len, chunk_off
    os,         \* what the process holds: open fd, live TLS session, live allocations, release counts
    net,        \* the peer: bytes not yet read from the socket, and whether end of stream was reported
    delivered,  \* every byte read() / tls_read() has returned so far, in order
    pc,         \* position of the caller
    lastRet,    \* return value of the last http.h call (and of fetch_weather once it returned)
    op,         \* the function the caller called last
    rd,         \* what the last http_req_read call did
    got,        \* bytes returned by http_req_byte_read calls that returned a byte
    doc,        \* the document of the response: its values and additional fields
    tokens,     \* tokens json_next has still to return
    js,         \* fetch_weather's locals: state, str, weather_id, night, and its json_stream
    current_conditions,
    current_temp,
    current_condition_icon,
    redraws,    \* number of redraw_icon calls
    arg,        \* the argument of a url_parse or url_encode call
    clock,      \* CLOCK_MONOTONIC, in ticks of 1 / TicksPerSec second
    last_weather_check,  \* the clock as fetch_weather last read it
    weather_check_secs,
    xpending,   \* whether an X event is queued (XPending)
    fetches     \* the clock at each call of fetch_weather by main, in order

vars == <<req, os, net, delivered, pc, lastRet, op, rd, got, doc, tokens, js,
          current_conditions, current_temp, current_condition_icon, redraws,
          arg, clock, last_weather_check, weather_check_secs, xpending,
          fetches>>

(***************************************************************************)
(* Bounds of the model.                                                    *)
(***************************************************************************)
MaxHdr == 6      \* longest response header part drawn
MaxBody == 1     \* longest response body part drawn
MaxFrees == 2    \* http_req_free calls a client of http.h makes on one connection
MaxExtras == 1   \* additional fields put into a document
MaxApiBody == 1  \* longest response body a client of http.h is given
MaxWeatherId == 900  \* largest weather code a document is given
MaxHost == 2     \* longest host part of a string given to url_parse
MaxPath == 4     \* longest path part of a string given to url_parse
MaxEncLen == 3   \* longest string of sample bytes given to url_encode
MaxElems == 2    \* most elements in the weather array of a document
MaxClock == 5    \* the monotonic clock stops at this many ticks
MaxInterval == 2 \* largest weather_check_secs given with -i
TicksPerSec == 2 \* clock ticks in a second

(***************************************************************************)
(* Program constants.                                                      *)
(***************************************************************************)
ChunkSize == 2048
CR == 13
LF == 10
Fd == 3

HdrBytes == {CR, LF, 97}
BodyBytes == {98, 200}

Min(a, b) == IF a < b THEN a ELSE b
Max(a, b) == IF a > b THEN a ELSE b

SeqsUpTo(S, n) == UNION { [1..k -> S] : k \in 0..n }

(***************************************************************************)
(* The chunk buffer.  char chunk[2048] is zeroed by http_get's memset; the *)
(* array is kept as the sequence of its bytes up to the last non-zero one, *)
(* every byte after it being 0.                                            *)
(***************************************************************************)
ChunkAt(c, i) == IF i < Len(c) THEN c[i + 1] ELSE 0

RECURSIVE Trim(_)
Trim(c) == IF c = <<>> THEN c
           ELSE IF c[Len(c)] = 0 THEN Trim(SubSeq(c, 1, Len(c) - 1))
           ELSE c

\* the array after data was stored at chunk + off
ChunkStore(c, off, data) ==
    Trim([k \in 1..Max(Len(c), off + Len(data)) |->
            IF k > off /\ k <= off + Len(data) THEN data[k - off]
            ELSE ChunkAt(c, k - 1)])

\* memmove(chunk + dst, chunk + src, n)
Memmove(c, dst, src, n) ==
    Trim([k \in 1..Max(Len(c), dst + n) |->
            IF k > dst /\ k <= dst + n THEN ChunkAt(c, src + (k - 1 - dst))
            ELSE ChunkAt(c, k - 1)])

\* chunk[0 .. n)
ChunkPrefix(c, n) == [k \in 1..n |-> ChunkAt(c, k - 1)]

(***************************************************************************)
(* The first header terminator of a byte sequence.                         *)
(***************************************************************************)
IsTermAt(s, n) ==
    /\ n >= 4 /\ n <= Len(s)
    /\ s[n - 3] = CR /\ s[n - 2] = LF /\ s[n - 1] = CR /\ s[n] = LF

HasTerm(s) == \E n \in 1..Len(s) : IsTermAt(s, n)

\* position of the last byte of the first terminator
FirstTerm(s) == CHOOSE n \in 1..Len(s) :
                    IsTermAt(s, n) /\ \A m \in 1..(n - 1) : ~IsTermAt(s, m)

AfterTerm(s) == IF HasTerm(s) THEN SubSeq(s, FirstTerm(s) + 1, Len(s)) ELSE <<>>

(***************************************************************************)
(* Resources of the process: how many of each kind were created and how    *)
(* many release calls (close, tls_close + tls_free, free) were made.       *)
(***************************************************************************)
Kinds == {"sock", "tls", "msg", "url"}

NoRes == [made |-> [k \in Kinds |-> 0], rel |-> [k \in Kinds |-> 0]]

Make(o, k) == [o EXCEPT !.made[k] = @ + 1]
Release(o, k) == [o EXCEPT !.rel[k] = @ + 1]
Live(o, k) == o.made[k] > o.rel[k]

\* memset(req, 0, sizeof(struct http_request))
ZeroReq == [socket |-> 0, https |-> 0, tls |-> FALSE, message |-> FALSE,
            url |-> FALSE, chunk |-> <<>>, chunk_len |-> 0, chunk_off |-> 0]

(***************************************************************************)
(* http_req_free(req), req not NULL.  No field but tls is reset.           *)
(***************************************************************************)
\* http_req_free without the free(req->message)
http_req_free_leaks_message(r, o) ==
    LET o1 == IF r.https = 1 /\ r.tls THEN Release(o, "tls") ELSE o
        r1 == IF r.https = 1 /\ r.tls THEN [r EXCEPT !.tls = FALSE] ELSE r
        o2 == IF r1.socket # 0 THEN Release(o1, "sock") ELSE o1
        o4 == IF r1.url THEN Release(o2, "url") ELSE o2
    IN  [req |-> r1, os |-> o4]

http_req_free(r, o) ==
    LET o1 == IF r.https = 1 /\ r.tls THEN Release(o, "tls") ELSE o
        r1 == IF r.https = 1 /\ r.tls THEN [r EXCEPT !.tls = FALSE] ELSE r
        o2 == IF r1.socket # 0 THEN Release(o1, "sock") ELSE o1
        o3 == IF r1.message THEN Release(o2, "msg") ELSE o2
        o4 == IF r1.url THEN Release(o3, "url") ELSE o3
    IN  [req |-> r1, os |-> o4]

(***************************************************************************)
(* url_parse(str).  The two sscanf calls are followed conversion by        *)
(* conversion; each gives the number of conversions done (sscanf's return  *)
(* value), what they stored, and the position %n stored.                   *)
(*   %[^:] %[^/]  the longest run of characters outside the set, at least  *)
(*                one, white space included;                               *)
(*   a character of the format matches itself;                             *)
(*   %u           skips white space, takes an optional sign and at least   *)
(*                one digit;                                               *)
(*   %s           skips white space, takes the longest run of characters   *)
(*                that are not white space, at least one.                  *)
(***************************************************************************)
WhiteSpace == {" ", "\t", "\n", "\r", "\f"}
Digits == <<"0","1","2","3","4","5","6","7","8","9">>
DigitChars == { Digits[k] : k \in 1..10 }

\* the last index of the longest run of s starting at i (i <= Len(s) + 1)
\* whose characters are in X, or are not in X; i - 1 when the run is empty
RunIn(s, i, X) ==
    CHOOSE j \in (i - 1)..Len(s) :
        /\ \A k \in i..j : s[k] \in X
        /\ j = Len(s) \/ s[j + 1] \notin X
RunNotIn(s, i, X) ==
    CHOOSE j \in (i - 1)..Len(s) :
        /\ \A k \in i..j : s[k] \notin X
        /\ j = Len(s) \/ s[j + 1] \in X

\* the characters of the format `lit` match s from i on
MatchAt(s, i, lit) ==
    /\ i + Len(lit) - 1 <= Len(s)
    /\ SubSeq(s, i, i + Len(lit) - 1) = lit

RECURSIVE StrToNat(_)
StrToNat(d) ==
    IF d = <<>> THEN 0
    ELSE 10 * StrToNat(SubSeq(d, 1, Len(d) - 1))
         + ((CHOOSE k \in 1..10 : Digits[k] = d[Len(d)]) - 1)

Scanned(ret, scheme, host, port, path, pos) ==
    [ret |-> ret, scheme |-> scheme, host |-> host, port |-> port,
     path |-> path, pos |-> pos]

\* %s%n from position i on, after n conversions
ScanPath(s, i, n, scheme, host, port) ==
    LET w == RunIn(s, i, WhiteSpace)
        e == RunNotIn(s, w + 1, WhiteSpace)
    IN  IF e < w + 1 THEN Scanned(n, scheme, host, port, <<>>, 0)
        ELSE Scanned(n + 1, scheme, host, port, SubSeq(s, w + 1, e), e)

\* sscanf(str, "%[^:]://%[^:]:%u%s%n", scheme, host, &port, path, &pos).
\* Of the unsigned int stored by %u only the low 16 bits reach the struct
\* (its port is an unsigned short): they are what is kept here.
ScanWithPort(s) ==
    LET e1 == RunNotIn(s, 1, {":"})
        scheme == SubSeq(s, 1, e1)
        e2 == RunNotIn(s, e1 + 4, {":"})
        host == SubSeq(s, e1 + 4, e2)
        w == RunIn(s, e2 + 2, WhiteSpace)
        sign == IF w + 1 <= Len(s) /\ s[w + 1] \in {"+", "-"} THEN 1 ELSE 0
        e3 == RunIn(s, w + 1 + sign, DigitChars)
        v == StrToNat(SubSeq(s, w + 1 + sign, e3))
        port == IF sign = 1 /\ s[w + 1] = "-" THEN (65536 - (v % 65536)) % 65536
                ELSE v % 65536
    IN  IF e1 < 1 THEN Scanned(0, <<>>, <<>>, 0, <<>>, 0)
        ELSE IF ~MatchAt(s, e1 + 1, <<":", "/", "/">>) \/ e2 < e1 + 4
        THEN Scanned(1, scheme, <<>>, 0, <<>>, 0)
        ELSE IF ~MatchAt(s, e2 + 1, <<":">>) \/ e3 < w + 1 + sign
        THEN Scanned(2, scheme, host, 0, <<>>, 0)
        ELSE ScanPath(s, e3 + 1, 3, scheme, host, port)

\* sscanf(str, "%[^:]://%[^/]%s%n", scheme, host, path, &pos)
ScanNoPort(s) ==
    LET e1 == RunNotIn(s, 1, {":"})
        scheme == SubSeq(s, 1, e1)
        e2 == RunNotIn(s, e1 + 4, {"/"})
        host == SubSeq(s, e1 + 4, e2)
    IN  IF e1 < 1 THEN Scanned(0, <<>>, <<>>, 0, <<>>, 0)
        ELSE IF ~MatchAt(s, e1 + 1, <<":", "/", "/">>) \/ e2 < e1 + 4
        THEN Scanned(1, scheme, <<>>, 0, <<>>, 0)
        ELSE ScanPath(s, e2 + 1, 2, scheme, host, 0)

S_http == <<"h","t","t","p">>
S_https == <<"h","t","t","p","s">>

\* return NULL
NullUrl == [null |-> TRUE, scheme |-> <<>>, host |-> <<>>, port |-> 0,
            path |-> <<>>]

\* consolidate: the struct url, its port an unsigned short
Consolidate(scheme, host, port, path) ==
    [null |-> FALSE, scheme |-> scheme, host |-> host, port |-> port % 65536,
     path |-> path]

\* pos never exceeds strlen(str): the errx calls are not reached
url_parse(str) ==
    LET a == ScanWithPort(str)
        b == ScanNoPort(str)
    IN  IF a.ret = 4 THEN Consolidate(a.scheme, a.host, a.port, a.path)
        ELSE IF b.ret = 3
        THEN IF b.scheme = S_http THEN Consolidate(b.scheme, b.host, 80, b.path)
             ELSE IF b.scheme = S_https
             THEN Consolidate(b.scheme, b.host, 443, b.path)
             ELSE NullUrl
        ELSE NullUrl

(***************************************************************************)
(* url_encode(str), on the bytes of str before its terminating NUL.  The   *)
(* pass that measures and the pass that fills run the same loop; the       *)
(* buffer between them has room for what the second writes, the NUL that   *)
(* snprintf puts after each escape included.                               *)
(***************************************************************************)
Unreserved(b) ==
    \/ b >= 65 /\ b <= 90
    \/ b >= 97 /\ b <= 122
    \/ b >= 48 /\ b <= 57
    \/ b = 45 \/ b = 95 \/ b = 46 \/ b = 126

\* the digit as %x prints it
HexDigit_lower(d) == IF d < 10 THEN 48 + d ELSE 87 + d

\* the digit as %X prints it
HexDigit(d) == IF d < 10 THEN 48 + d ELSE 55 + d

\* snprintf(ret + len, 4, "%%%02X", str[n])
Escape(b) == <<37, HexDigit(b \div 16), HexDigit(b % 16)>>

RECURSIVE EncodePass(_, _)
EncodePass(s, ret) ==
    IF s = <<>> THEN ret
    ELSE EncodePass(Tail(s), IF Unreserved(Head(s)) THEN Append(ret, Head(s))
                             ELSE ret \o Escape(Head(s)))

url_encode(str) == EncodePass(str, <<>>)

(***************************************************************************)
(* http_get(surl).  The outcomes of url_parse, gethostbyname, connect, the *)
(* TLS setup and the write are inputs; `fail` names the first step that    *)
(* fails.  Result: the request, the resources, and what the caller gets    *)
(* ("req", "NULL", or "exit" when err()/errx() ends the process).          *)
(***************************************************************************)
Schemes == {"http", "https"}
GetFailures == {"none", "parse", "dns", "connect", "tls_connect",
                "tls_handshake", "short_write"}

http_get(scheme, fail, o) ==
    IF fail = "parse" THEN [req |-> ZeroReq, os |-> o, result |-> "NULL"]
    ELSE
    LET r0 == [ZeroReq EXCEPT !.url = TRUE,
                              !.https = IF scheme = "https" THEN 1 ELSE 0]
        o0 == Make(o, "url")
        \* error: http_req_free(req); return NULL
        Error(r, oo) == LET f == http_req_free(r, oo)
                        IN  [req |-> f.req, os |-> f.os, result |-> "NULL"]
        r1 == [r0 EXCEPT !.socket = Fd]
        o1 == Make(o0, "sock")
        r2 == IF r1.https = 1 THEN [r1 EXCEPT !.tls = TRUE] ELSE r1
        o2 == IF r1.https = 1 THEN Make(o1, "tls") ELSE o1
        r3 == [r2 EXCEPT !.message = TRUE]
        o3 == Make(o2, "msg")
    IN  IF fail = "dns" THEN Error(r0, o0)
        ELSE IF fail = "connect" THEN Error(r1, o1)
        ELSE IF r1.https = 1 /\ fail \in {"tls_connect", "tls_handshake"}
             THEN Error(r2, o2)
        ELSE IF fail = "short_write" THEN [req |-> r3, os |-> o3, result |-> "exit"]
        ELSE [req |-> r3, os |-> o3, result |-> "req"]

(***************************************************************************)
(* http_req_read(req, data, len): the set of things one call can do, given *)
(* the request r, the resources o and the peer nt.  Each element gives the *)
(* return value, the bytes stored at data, and the state afterwards.       *)
(*   what = "nosock"  req->socket is 0: -1 at once, no select              *)
(*          "badfd"   select fails on a closed descriptor: err(1, ...)     *)
(*          "nodata"  select returns 0                                     *)
(*          "data"    read / tls_read returns k > 0 bytes                  *)
(*          "eof"     read / tls_read returns 0                            *)
(*          "err"     read / tls_read returns -1                           *)
(* tls_read is retried while it returns TLS_WANT_POLLIN / TLS_WANT_POLLOUT;*)
(* the retries change nothing and are not steps of their own.              *)
(***************************************************************************)
ReadOutcome(what, ret, data, polled, r, o, nt) ==
    [what |-> what, ret |-> ret, data |-> data, polled |-> polled,
     req |-> r, os |-> o, net |-> nt]

\* http_req_read without `req->socket = 0` after the close
http_req_read_keeps_socket(r, o, nt, len) ==
    IF r.socket = 0
    THEN { ReadOutcome("nosock", -1, <<>>, FALSE, r, o, nt) }
    ELSE IF ~Live(o, "sock")
    THEN { ReadOutcome("badfd", 0, <<>>, TRUE, r, o, nt) }
    ELSE
      LET invalidated ==
            LET o1 == IF r.https = 1 THEN Release(o, "tls") ELSE o
                r1 == IF r.https = 1 THEN [r EXCEPT !.tls = FALSE, !.https = 0]
                      ELSE r
            IN  [req |-> r1, os |-> Release(o1, "sock")]
      IN
        (IF nt.closed THEN {}
         ELSE { ReadOutcome("nodata", 0, <<>>, TRUE, r, o, nt),
                ReadOutcome("err", -1, <<>>, TRUE, invalidated.req,
                            invalidated.os, nt) })
        \cup
        { ReadOutcome("data", k, SubSeq(nt.pending, 1, k), TRUE, r, o,
                      [nt EXCEPT !.pending = SubSeq(@, k + 1, Len(@))]) :
            k \in 1..Min(len, Len(nt.pending)) }
        \cup
        (IF nt.pending = <<>>
         THEN { ReadOutcome("eof", 0, <<>>, TRUE, r, o, [nt EXCEPT !.closed = TRUE]) }
         ELSE {})

http_req_read(r, o, nt, len) ==
    IF r.socket = 0
    THEN { ReadOutcome("nosock", -1, <<>>, FALSE, r, o, nt) }
    ELSE IF ~Live(o, "sock")
    THEN { ReadOutcome("badfd", 0, <<>>, TRUE, r, o, nt) }
    ELSE
      LET invalidated ==
            LET o1 == IF r.https = 1 THEN Release(o, "tls") ELSE o
                r1 == IF r.https = 1 THEN [r EXCEPT !.tls = FALSE, !.https = 0]
                      ELSE r
            IN  [req |-> [r1 EXCEPT !.socket = 0], os |-> Release(o1, "sock")]
      IN
        (IF nt.closed THEN {}
         ELSE { ReadOutcome("nodata", 0, <<>>, TRUE, r, o, nt),
                ReadOutcome("err", -1, <<>>, TRUE, invalidated.req,
                            invalidated.os, nt) })
        \cup
        { ReadOutcome("data", k, SubSeq(nt.pending, 1, k), TRUE, r, o,
                      [nt EXCEPT !.pending = SubSeq(@, k + 1, Len(@))]) :
            k \in 1..Min(len, Len(nt.pending)) }
        \cup
        (IF nt.pending = <<>>
         THEN { ReadOutcome("eof", 0, <<>>, TRUE, r, o, [nt EXCEPT !.closed = TRUE]) }
         ELSE {})

RdInfo(x) == [what |-> x.what, ret |-> x.ret, polled |-> x.polled]

(***************************************************************************)
(* One iteration of the for (;;) of http_req_skip_header, for each thing   *)
(* its http_req_read call can do.  status is "again" (the loop goes round),*)
(* "found" (return 1) or "ub" (the scan runs with chunk_len < 0, which the *)
(* unsigned comparison n < chunk_len takes for a huge bound, so that it    *)
(* walks off the array).  len is a size_t: `len < 0` is never true and the *)
(* `return 0` under it is never executed.                                  *)
(***************************************************************************)
SkipCompact(r) ==
    IF r.chunk_len > 3
    THEN [r EXCEPT !.chunk = Memmove(r.chunk, 0, r.chunk_len - 3, r.chunk_len - 3),
                   !.chunk_len = 3]
    ELSE r

SkipScan(r) ==
    LET hits == { n \in 3..(r.chunk_len - 1) :
                     /\ ChunkAt(r.chunk, n - 3) = CR
                     /\ ChunkAt(r.chunk, n - 2) = LF
                     /\ ChunkAt(r.chunk, n - 1) = CR
                     /\ ChunkAt(r.chunk, n) = LF }
    IN  IF r.chunk_len < 0 THEN [req |-> r, status |-> "ub"]
        ELSE IF hits = {} THEN [req |-> r, status |-> "again"]
        ELSE LET n == CHOOSE h \in hits : \A g \in hits : h <= g
                 len2 == r.chunk_len - (n + 1)
             IN  [req |-> [r EXCEPT !.chunk_len = len2,
                                    !.chunk = Memmove(r.chunk, 0, n + 1, len2),
                                    !.chunk_off = 0],
                  status |-> "found"]

\* the request when the scan with chunk_len < 0 stops at four matching
\* bytes past the array and the memmove after it comes back: chunk_len has
\* lost n + 1 for some n >= ChunkSize (the least is taken)
UbFound(r) == [r EXCEPT !.chunk_len = -1 - (ChunkSize + 1), !.chunk_off = 0]

\* the iteration after the compaction, given what the read did (x.req is
\* the compacted request as http_req_read left it)
SkipFilled(x) ==
    [x.req EXCEPT !.chunk = ChunkStore(@, x.req.chunk_len, x.data),
                  !.chunk_len = @ + x.ret]

SkipAfterRead(x) ==
    IF x.ret = 0 THEN [req |-> x.req, status |-> "again"]
    ELSE SkipScan(SkipFilled(x))

\* the set of [read outcome, result of the iteration]
http_req_skip_header(r, o, nt) ==
    LET c == SkipCompact(r)
    IN  { [x |-> x, it |-> SkipAfterRead(x)] :
             x \in http_req_read(c, o, nt, ChunkSize - c.chunk_len) }

(***************************************************************************)
(* The indexes of chunk that one iteration touches.  The compaction reads  *)
(* chunk_len - 3 bytes from chunk_len - 3 on and writes them from 0 on;    *)
(* the read writes the bytes it got from chunk_len on; the scan compares   *)
(* chunk[n - 3] to chunk[n], each only if the one before it matched, for   *)
(* n from 3 until four bytes match or n < chunk_len fails, which with a    *)
(* negative chunk_len (converted to size_t) it does not do inside the      *)
(* array; the memmove at the end reads from n + 1 on and writes from 0 on. *)
(***************************************************************************)
CompactTouched(r) ==
    IF r.chunk_len > 3
    THEN (0..(r.chunk_len - 4)) \cup ((r.chunk_len - 3)..(2 * r.chunk_len - 7))
    ELSE {}

ReadTouched(x) == x.req.chunk_len..(x.req.chunk_len + Len(x.data) - 1)

ScanLast(r) ==
    LET bound == IF r.chunk_len < 0 THEN ChunkSize + 3 ELSE r.chunk_len - 1
        hits == { n \in 3..bound :
                     /\ ChunkAt(r.chunk, n - 3) = CR
                     /\ ChunkAt(r.chunk, n - 2) = LF
                     /\ ChunkAt(r.chunk, n - 1) = CR
                     /\ ChunkAt(r.chunk, n) = LF }
    IN  IF hits = {} THEN bound
        ELSE CHOOSE h \in hits : \A g \in hits : h <= g

ScanCompared(r) ==
    UNION { {n - 3}
              \cup (IF ChunkAt(r.chunk, n - 3) = CR THEN {n - 2} ELSE {})
              \cup (IF /\ ChunkAt(r.chunk, n - 3) = CR
                       /\ ChunkAt(r.chunk, n - 2) = LF THEN {n - 1} ELSE {})
              \cup (IF /\ ChunkAt(r.chunk, n - 3) = CR
                       /\ ChunkAt(r.chunk, n - 2) = LF
                       /\ ChunkAt(r.chunk, n - 1) = CR THEN {n} ELSE {}) :
            n \in 3..ScanLast(r) }

FoundTouched(r, it) ==
    IF it.status = "found"
    THEN (0..(it.req.chunk_len - 1))
            \cup ((r.chunk_len - it.req.chunk_len)..(r.chunk_len - 1))
    ELSE {}

\* y is a member of http_req_skip_header(r, o, nt)
SkipTouched(r, y) ==
    CompactTouched(r) \cup ReadTouched(y.x)
        \cup (IF y.x.ret = 0 THEN {}
              ELSE ScanCompared(SkipFilled(y.x))
                      \cup FoundTouched(SkipFilled(y.x), y.it))

(***************************************************************************)
(* The byte and chunk accessors.  Each gives the set of things one call    *)
(* can do: the return value, the state afterwards, what http_req_read did  *)
(* (rd, unchanged when it was not called) and the bytes it read.           *)
(***************************************************************************)
\* a byte as the value of a C char (signed on the platforms built for)
ToChar(b) == IF b >= 128 THEN b - 256 ELSE b

NeedRefill(r) == r.chunk_len = 0 \/ r.chunk_off + 1 > r.chunk_len

Access(ret, r, o, nt, rdi, data, exits) ==
    [ret |-> ret, req |-> r, os |-> o, net |-> nt, rd |-> rdi,
     data |-> data, exits |-> exits]

\* the refill common to http_req_byte_peek and http_req_chunk_peek: the
\* request after `chunk_len = http_req_read(req, chunk, sizeof(chunk))`
\* and, unless that is negative, `chunk_off = 0`
Refilled(x) ==
    LET r1 == [x.req EXCEPT !.chunk = ChunkStore(@, 0, x.data),
                            !.chunk_len = x.ret]
    IN  IF x.ret < 0 THEN r1 ELSE [r1 EXCEPT !.chunk_off = 0]

http_req_byte_peek(r, o, nt, rdi) ==
    IF NeedRefill(r)
    THEN { IF x.what = "badfd"
           THEN Access(0, x.req, x.os, x.net, RdInfo(x), <<>>, TRUE)
           ELSE LET r1 == Refilled(x)
                IN  Access(IF x.ret < 0 \/ NeedRefill(r1) THEN 0
                           ELSE ToChar(ChunkAt(r1.chunk, r1.chunk_off)),
                           r1, x.os, x.net, RdInfo(x), x.data, FALSE) :
             x \in http_req_read(r, o, nt, ChunkSize) }
    ELSE { Access(ToChar(ChunkAt(r.chunk, r.chunk_off)), r, o, nt, rdi,
                  <<>>, FALSE) }

http_req_byte_read(r, o, nt, rdi) ==
    { IF a.ret = 0 THEN a
      ELSE [a EXCEPT !.req.chunk_off = @ + 1] :
        a \in http_req_byte_peek(r, o, nt, rdi) }

\* the pointer returned is given as its offset into chunk, NULL as -1
NullPtr == -1

http_req_chunk_peek(r, o, nt, rdi) ==
    IF NeedRefill(r)
    THEN { IF x.what = "badfd"
           THEN Access(NullPtr, x.req, x.os, x.net, RdInfo(x), <<>>, TRUE)
           ELSE LET r1 == Refilled(x)
                IN  Access(IF x.ret < 0 \/ NeedRefill(r1) THEN NullPtr
                           ELSE r1.chunk_off,
                           r1, x.os, x.net, RdInfo(x), x.data, FALSE) :
             x \in http_req_read(r, o, nt, ChunkSize) }
    ELSE { Access(r.chunk_off, r, o, nt, rdi, <<>>, FALSE) }

http_req_chunk_read(r, o, nt, rdi) ==
    { IF a.ret = NullPtr THEN a
      ELSE [a EXCEPT !.req.chunk_off = a.req.chunk_len] :
        a \in http_req_chunk_peek(r, o, nt, rdi) }

(***************************************************************************)
(* Strings are sequences of characters.                                    *)
(***************************************************************************)
Lower == <<"a","b","c","d","e","f","g","h","i","j","k","l","m",
           "n","o","p","q","r","s","t","u","v","w","x","y","z">>
Upper == <<"A","B","C","D","E","F","G","H","I","J","K","L","M",
           "N","O","P","Q","R","S","T","U","V","W","X","Y","Z">>

toupper(c) == IF \E k \in 1..26 : Lower[k] = c
              THEN Upper[CHOOSE k \in 1..26 : Lower[k] = c]
              ELSE c

\* strlcpy(dst, src, size) and snprintf(dst, size, ...): at most size - 1 characters
strlcpy(src, size) == SubSeq(src, 1, Min(Len(src), size - 1))

S_weather == <<"w","e","a","t","h","e","r">>
S_main == <<"m","a","i","n">>
S_description == <<"d","e","s","c","r","i","p","t","i","o","n">>
S_id == <<"i","d">>
S_icon == <<"i","c","o","n">>
S_temp == <<"t","e","m","p">>

FailedToParse ==
    <<"(","F","a","i","l","e","d"," ","t","o"," ","p","a","r","s","e"," ",
      "A","P","I"," ","r","e","s","p","o","n","s","e",")">>

CondSize == 100
fahrenheit == 1

(***************************************************************************)
(* Numbers are kept in tenths (725 is 72.5).  ToInt is the conversion of   *)
(* a double to int: truncation toward zero.                                *)
(***************************************************************************)
ToInt(x) == IF x >= 0 THEN x \div 10 ELSE -((-x) \div 10)

RECURSIVE NatToStr(_)
NatToStr(n) == IF n < 10 THEN <<Digits[n + 1]>>
               ELSE NatToStr(n \div 10) \o <<Digits[(n % 10) + 1]>>

\* printf's %d
IntToStr(n) == IF n < 0 THEN <<"-">> \o NatToStr(-n) ELSE NatToStr(n)

(***************************************************************************)
(* Tokens of json_next.  A String token carries its text; a Number token   *)
(* its value and the text the parser accumulated for it.                   *)
(***************************************************************************)
Tok(type, str, num) == [type |-> type, str |-> str, num |-> num]

T_OBJECT == Tok("JSON_OBJECT", <<>>, 0)
T_OBJECT_END == Tok("JSON_OBJECT_END", <<>>, 0)
T_ARRAY == Tok("JSON_ARRAY", <<>>, 0)
T_ARRAY_END == Tok("JSON_ARRAY_END", <<>>, 0)
T_NULL == Tok("JSON_NULL", <<>>, 0)
T_TRUE == Tok("JSON_TRUE", <<>>, 0)
T_STRING(s) == Tok("JSON_STRING", s, 0)
\* the text of a number in tenths: the integer part, and ".d" when d # 0
NumText(x) ==
    LET a == IF x < 0 THEN -x ELSE x
    IN  (IF x < 0 THEN <<"-">> ELSE <<>>) \o NatToStr(a \div 10)
        \o (IF a % 10 = 0 THEN <<>> ELSE <<".", Digits[(a % 10) + 1]>>)
T_NUMBER(x) == Tok("JSON_NUMBER", NumText(x), x)

(***************************************************************************)
(* The body of fetch_weather's token loop for one token that is neither    *)
(* Done nor Error: the set of [js, cond, temp] it can leave (j is the      *)
(* locals, cond current_conditions, temp current_temp).                    *)
(*                                                                         *)
(* str is assigned only for a String token.  For another token it still    *)
(* points into the parser's string buffer; a Number token may have been    *)
(* accumulated in that buffer, so str then reads as the old text or as     *)
(* the number's text.                                                      *)
(***************************************************************************)
StrAfter(j, tok) ==
    IF tok.type = "JSON_STRING" THEN { tok.str }
    ELSE IF tok.type = "JSON_NUMBER" THEN { j.str, tok.str }
    ELSE { j.str }

\* str[2] == 'n'.  Index 2 is the terminating NUL of a 2-character string
\* and lies past the terminator of a shorter one, where the byte is
\* whatever the buffer held before.
NightIndex == 2
NightOf(s) == IF Len(s) > NightIndex
              THEN { IF s[NightIndex + 1] = "n" THEN 1 ELSE 0 }
              ELSE IF Len(s) = NightIndex THEN { 0 }
              ELSE { 0, 1 }

Step(j, cond, temp) == [js |-> j, cond |-> cond, temp |-> temp]

HandleToken(j0, cond, temp, tok) ==
    UNION {
      LET j == [j0 EXCEPT !.str = s]
          isStr(k) == tok.type = "JSON_STRING" /\ j.str = k
      IN
      CASE j.state = "STATE_BEGIN" ->
             { Step([j EXCEPT !.state =
                        IF isStr(S_weather) THEN "STATE_IN_WEATHER"
                        ELSE IF isStr(S_main) THEN "STATE_IN_MAIN"
                        ELSE @], cond, temp) }
        [] j.state = "STATE_IN_WEATHER" ->
             { Step([j EXCEPT !.state =
                        IF isStr(S_description) THEN "STATE_IN_WEATHER_DESC"
                        ELSE IF isStr(S_id) THEN "STATE_IN_WEATHER_ID"
                        ELSE IF isStr(S_icon) THEN "STATE_IN_WEATHER_ICON"
                        ELSE IF tok.type = "JSON_OBJECT_END" THEN "STATE_BEGIN"
                        ELSE @], cond, temp) }
        [] j.state = "STATE_IN_WEATHER_ID" ->
             { Step([j EXCEPT !.state = "STATE_IN_WEATHER",
                              !.weather_id = IF tok.type = "JSON_NUMBER"
                                             THEN ToInt(tok.num) ELSE @],
                    cond, temp) }
        [] j.state = "STATE_IN_WEATHER_ICON" ->
             IF tok.type = "JSON_STRING"
             THEN { Step([j EXCEPT !.state = "STATE_IN_WEATHER", !.night = n],
                         cond, temp) : n \in NightOf(j.str) }
             ELSE { Step([j EXCEPT !.state = "STATE_IN_WEATHER"], cond, temp) }
        [] j.state = "STATE_IN_WEATHER_DESC" ->
             LET c == strlcpy(j.str, CondSize)
             IN  { Step([j EXCEPT !.state = "STATE_IN_WEATHER"],
                        IF c = <<>> THEN c
                        ELSE <<toupper(c[1])>> \o SubSeq(c, 2, Len(c)),
                        temp) }
        [] j.state = "STATE_IN_MAIN" ->
             { Step([j EXCEPT !.state = IF isStr(S_temp) THEN "STATE_IN_MAIN_TEMP"
                                        ELSE @], cond, temp) }
        [] j.state = "STATE_IN_MAIN_TEMP" ->
             { Step([j EXCEPT !.state = "STATE_IN_MAIN"], cond,
                    IF tok.type = "JSON_NUMBER" THEN tok.num ELSE temp) }
      : s \in StrAfter(j0, tok) }

(***************************************************************************)
(* The token loop run over a whole token sequence that ends with Done:     *)
(* the steps it can end in, from the steps in S.                           *)
(***************************************************************************)
RECURSIVE Pass(_, _)
Pass(S, toks) ==
    IF toks = <<>> THEN S
    ELSE Pass(UNION { HandleToken(x.js, x.cond, x.temp, Head(toks)) : x \in S },
              Tail(toks))

\* what a pass has extracted: the accumulators
Extracted(x) ==
    [weather_id |-> x.js.weather_id, night |-> x.js.night,
     cond |-> x.cond, temp |-> x.temp]

\* the locals and globals as the loop finds them
LoopEntry ==
    Step([state |-> "STATE_BEGIN", str |-> <<>>, weather_id |-> 0,
          night |-> 0, error |-> FALSE, open |-> TRUE], FailedToParse, 0)

(***************************************************************************)
(* The end of fetch_weather, after the loop: the conditions text with the  *)
(* temperature appended, and the icon.                                     *)
(***************************************************************************)
WithTemp(cond, temp) ==
    strlcpy(cond \o <<",", " ">> \o IntToStr(ToInt(temp))
                 \o <<"\\260", IF fahrenheit # 0 THEN "F" ELSE "C">>,
            CondSize)

\* the icon choice with the clouds range starting at 800
IconFor_clouds_from_800(weather_id, night) ==
    IF weather_id >= 200 /\ weather_id <= 399 THEN "ICON_RAIN"
    ELSE IF weather_id >= 500 /\ weather_id <= 599 THEN "ICON_RAIN"
    ELSE IF weather_id >= 600 /\ weather_id <= 699 THEN "ICON_SNOW"
    ELSE IF weather_id >= 800 /\ weather_id <= 804 THEN "ICON_CLOUDS"
    ELSE IF night # 0 THEN "ICON_MOON" ELSE "ICON_SUN"

IconFor(weather_id, night) ==
    IF weather_id >= 200 /\ weather_id <= 399 THEN "ICON_RAIN"
    ELSE IF weather_id >= 500 /\ weather_id <= 599 THEN "ICON_RAIN"
    ELSE IF weather_id >= 600 /\ weather_id <= 699 THEN "ICON_SNOW"
    ELSE IF weather_id >= 801 /\ weather_id <= 804 THEN "ICON_CLOUDS"
    ELSE IF night # 0 THEN "ICON_MOON" ELSE "ICON_SUN"

(***************************************************************************)
(* Inputs.  A response is a header part followed by a body part; a         *)
(* document is the one of the API, {"weather":[{"id":w,"description":d,    *)
(* "icon":i}],"main":{"temp":t}}, with additional fields placed in it.     *)
(***************************************************************************)
DefaultStream == <<CR, LF, CR, LF>>
\* a header with a line of one character, 5 bytes in, and a body of one byte
LongStream == <<97, 97, CR, LF, 97, LF>> \o DefaultStream \o <<98>>
Streams == { h \o b : h \in SeqsUpTo(HdrBytes, MaxHdr), b \in SeqsUpTo(BodyBytes, MaxBody) }
           \cup {LongStream}

\* the values drawn: a clear day and a rainy night
Readings == { [w |-> 8000, d |-> <<"s","k","y">>, i |-> <<"0","1","d">>, t |-> 725],
              [w |-> 5000, d |-> <<"r","a","i","n">>, i |-> <<"1","0","n">>, t |-> -35] }

S_x == <<"x">>
ExtraFields ==
    { <<T_STRING(S_x), T_STRING(<<"v">>)>>,
      <<T_STRING(S_x), T_NUMBER(50)>>,
      <<T_STRING(S_x), T_NULL>>,
      <<T_STRING(S_x), T_OBJECT, T_STRING(<<"y">>), T_NUMBER(10), T_OBJECT_END>>,
      <<T_STRING(S_x), T_ARRAY, T_NUMBER(20), T_ARRAY_END>> }

\* where an additional field goes: 1 root, before "weather"; 2, 3, 4 the
\* weather element, before "id", before "description", after "icon";
\* 5 root, before "main"; 6, 7 main, before and after "temp"; 8 root, last
Slots == 1..8
\* the additional fields of a document, in the order of their slots
Placements == { pl \in SeqsUpTo(Slots \X ExtraFields, MaxExtras) :
                  \A k \in 1..(Len(pl) - 1) : pl[k][1] <= pl[k + 1][1] }

RECURSIVE ExtrasAt(_, _)
ExtrasAt(pl, slot) ==
    IF pl = <<>> THEN <<>>
    ELSE (IF pl[1][1] = slot THEN pl[1][2] ELSE <<>>) \o ExtrasAt(Tail(pl), slot)

Doc(w, d, i, t, pl) ==
    <<T_OBJECT>> \o ExtrasAt(pl, 1)
    \o <<T_STRING(S_weather), T_ARRAY, T_OBJECT>> \o ExtrasAt(pl, 2)
    \o <<T_STRING(S_id), T_NUMBER(w)>> \o ExtrasAt(pl, 3)
    \o <<T_STRING(S_description), T_STRING(d)>>
    \o <<T_STRING(S_icon), T_STRING(i)>> \o ExtrasAt(pl, 4)
    \o <<T_OBJECT_END, T_ARRAY_END>> \o ExtrasAt(pl, 5)
    \o <<T_STRING(S_main), T_OBJECT>> \o ExtrasAt(pl, 6)
    \o <<T_STRING(S_temp), T_NUMBER(t)>> \o ExtrasAt(pl, 7)
    \o <<T_OBJECT_END>> \o ExtrasAt(pl, 8) \o <<T_OBJECT_END>>

DocParams == { [w |-> v.w, d |-> v.d, i |-> v.i, t |-> v.t, pl |-> pl] :
                 v \in Readings, pl \in Placements }
\* a response without a document: json_next has no token to return
NoDoc == [w |-> 0, d |-> <<>>, i |-> <<>>, t |-> 0, pl |-> <<>>]
DocOf(p) == IF p = NoDoc THEN <<>> ELSE Doc(p.w, p.d, p.i, p.t, p.pl)

(***************************************************************************)
(* The state before fetch_weather (or a client of http.h) starts, for the  *)
(* response s and the document p.  The globals are zero; the locals of     *)
(* fetch_weather are given the values its code assigns before it reads     *)
(* them.                                                                   *)
(***************************************************************************)
BeginWith(s, p, at, a, secs) ==
    /\ net = [pending |-> s, closed |-> FALSE]
    /\ doc = p
    /\ tokens = DocOf(p)
    /\ req = ZeroReq
    /\ os = NoRes
    /\ delivered = <<>>
    /\ pc = at
    /\ lastRet = 0
    /\ op = "none"
    /\ rd = [what |-> "none", ret |-> 0, polled |-> FALSE]
    /\ got = <<>>
    /\ js = [state |-> "STATE_BEGIN", str |-> <<>>, weather_id |-> 0,
             night |-> 0, error |-> FALSE, open |-> FALSE]
    /\ current_conditions = <<>>
    /\ current_temp = 0
    /\ current_condition_icon = "ICON_SUN"
    /\ redraws = 0
    /\ arg = a
    /\ clock = 0
    /\ last_weather_check = 0
    /\ weather_check_secs = secs
    /\ xpending = FALSE
    /\ fetches = <<>>

\* without -i, weather_check_secs is (60 * 30)
Begin(s, p, at, a) == BeginWith(s, p, at, a, 60 * 30)

Start(s, p) == Begin(s, p, "start", <<>>)

\* any response without a document, or any document behind the shortest header
Init ==
    \E s \in Streams, p \in DocParams \cup {NoDoc} :
        /\ s = DefaultStream \/ p = NoDoc
        /\ Start(s, p)

\* a client of http.h: responses with or without a header, any byte in the body
ApiBodyBytes == {0, 98, 200}
ApiStreams == { h \o b : h \in {<<>>, DefaultStream},
                         b \in SeqsUpTo(ApiBodyBytes, MaxApiBody) }

InitApi == \E s \in ApiStreams : Start(s, NoDoc)

netVars == <<net, delivered, rd>>
jsonVars == <<tokens, js, current_conditions, current_temp>>
loopVars == <<clock, weather_check_secs, xpending, fetches>>
outVars == <<current_condition_icon, redraws, arg, last_weather_check, loopVars>>

(***************************************************************************)
(* fetch_weather.                                                          *)
(***************************************************************************)
\* from clock_gettime(CLOCK_MONOTONIC, &last_weather_check) to
\* `if (req == NULL) return 1`; the URL it builds is an https one
FetchStart ==
    /\ pc = "start"
    /\ \E fail \in GetFailures :
          LET g == http_get("https", fail, os)
          IN  /\ req' = g.req
              /\ os' = g.os
              /\ pc' = CASE g.result = "req" -> "skip"
                         [] g.result = "NULL" -> "returned"
                         [] g.result = "exit" -> "exited"
              /\ lastRet' = IF g.result = "NULL" THEN 1 ELSE lastRet
    /\ op' = "http_get"
    /\ last_weather_check' = clock
    /\ UNCHANGED <<netVars, got, doc, jsonVars, current_condition_icon,
                   redraws, arg, loopVars>>

\* `if (http_req_skip_header(req) != 1) { ...; http_req_free(req); return 1; }`
\* and the assignments that follow it, one iteration of the loop of
\* http_req_skip_header at a time
FetchSkipHeader ==
    /\ pc = "skip"
    /\ \E y \in http_req_skip_header(req, os, net) :
          /\ net' = y.x.net
          /\ delivered' = delivered \o y.x.data
          /\ rd' = RdInfo(y.x)
          /\ \/ /\ y.x.what = "badfd"
                /\ pc' = "exited"
                /\ req' = y.x.req /\ os' = y.x.os
                /\ UNCHANGED <<lastRet, js, current_conditions, current_temp>>
             \/ /\ y.x.what # "badfd" /\ y.it.status = "again"
                /\ pc' = "skip"
                /\ req' = y.it.req /\ os' = y.x.os
                /\ UNCHANGED <<lastRet, js, current_conditions, current_temp>>
             \* http_req_skip_header returned 0 (no iteration ends so:
             \* see SkipAfterRead)
             \/ /\ y.x.what # "badfd" /\ y.it.status = "failed"
                /\ LET f == http_req_free(y.it.req, y.x.os)
                   IN  req' = f.req /\ os' = f.os
                /\ pc' = "returned"
                /\ lastRet' = 1
                /\ UNCHANGED <<js, current_conditions, current_temp>>
             \/ /\ y.x.what # "badfd"
                /\ \/ y.it.status = "found" /\ req' = y.it.req
                   \* the scan past the array found its four bytes somewhere
                   \/ /\ y.it.status = "ub"
                      /\ req' = UbFound(y.it.req)
                /\ os' = y.x.os
                /\ pc' = "json"
                /\ lastRet' = 1
                /\ current_conditions' = FailedToParse
                /\ current_temp' = 0
                \* json_open_user(&js, ...)
                /\ js' = [js EXCEPT !.weather_id = 0, !.night = 0, !.open = TRUE]
             \* the scan past the array, or the memmove after it, faulted
             \/ /\ y.x.what # "badfd" /\ y.it.status = "ub"
                /\ pc' = "crashed"
                /\ req' = y.it.req /\ os' = y.x.os
                /\ UNCHANGED <<lastRet, js, current_conditions, current_temp>>
    /\ op' = "http_req_skip_header"
    /\ UNCHANGED <<got, doc, tokens, outVars>>

\* the state after a byte or chunk accessor did `a`
Accessed(a) ==
    /\ req' = a.req /\ os' = a.os /\ net' = a.net /\ rd' = a.rd
    /\ delivered' = delivered \o a.data
    /\ lastRet' = a.ret
    /\ pc' = IF a.exits THEN "exited" ELSE pc

\* the parser asks for a byte: fetch_weather_read
FetchRead ==
    /\ pc = "json"
    /\ \E a \in http_req_byte_read(req, os, net, rd) :
          /\ Accessed(a)
          /\ got' = IF a.ret # 0 THEN Append(got, a.ret % 256) ELSE got
    /\ op' = "http_req_byte_read"
    /\ UNCHANGED <<doc, jsonVars, outVars>>

\* the parser looks at a byte: fetch_weather_peek
FetchPeek ==
    /\ pc = "json"
    /\ \E a \in http_req_byte_peek(req, os, net, rd) : Accessed(a)
    /\ op' = "http_req_byte_peek"
    /\ UNCHANGED <<got, doc, jsonVars, outVars>>

\* the token loop with `jt != JSON_DONE` as its only test
FetchToken_ignores_error ==
    /\ pc = "json"
    /\ \/ /\ tokens # <<>>
          /\ \E h \in HandleToken(js, current_conditions, current_temp, Head(tokens)) :
                /\ js' = h.js
                /\ current_conditions' = h.cond
                /\ current_temp' = h.temp
          /\ tokens' = Tail(tokens)
          /\ pc' = "json"
       \/ /\ tokens = <<>>
          /\ pc' = "finish"
          /\ UNCHANGED <<tokens, js, current_conditions, current_temp>>
       \/ /\ js' = [js EXCEPT !.error = TRUE]
          /\ pc' = "json"
          /\ UNCHANGED <<tokens, current_conditions, current_temp>>
    /\ op' = "json_next"
    /\ UNCHANGED <<req, os, netVars, lastRet, got, doc, outVars>>

\* the token loop leaving IN_WEATHER_ID only with the number it waits for
FetchToken_waits_for_number ==
    /\ pc = "json"
    /\ \/ /\ tokens # <<>>
          /\ \E h \in HandleToken(js, current_conditions, current_temp, Head(tokens)) :
                /\ js' = IF /\ js.state = "STATE_IN_WEATHER_ID"
                            /\ Head(tokens).type # "JSON_NUMBER"
                         THEN [h.js EXCEPT !.state = js.state] ELSE h.js
                /\ current_conditions' = h.cond
                /\ current_temp' = h.temp
          /\ tokens' = Tail(tokens)
          /\ pc' = "json"
       \/ /\ tokens = <<>>
          /\ pc' = "finish"
          /\ UNCHANGED <<tokens, js, current_conditions, current_temp>>
       \/ /\ js' = [js EXCEPT !.error = TRUE]
          /\ pc' = "finish"
          /\ UNCHANGED <<tokens, current_conditions, current_temp>>
    /\ op' = "json_next"
    /\ UNCHANGED <<req, os, netVars, lastRet, got, doc, outVars>>

\* the token loop with ObjectEnd ending IN_MAIN as it ends IN_WEATHER
FetchToken_leaves_main ==
    /\ pc = "json"
    /\ \/ /\ tokens # <<>>
          /\ \E h \in HandleToken(js, current_conditions, current_temp, Head(tokens)) :
                /\ js' = IF /\ js.state = "STATE_IN_MAIN"
                            /\ Head(tokens).type = "JSON_OBJECT_END"
                         THEN [h.js EXCEPT !.state = "STATE_BEGIN"] ELSE h.js
                /\ current_conditions' = h.cond
                /\ current_temp' = h.temp
          /\ tokens' = Tail(tokens)
          /\ pc' = "json"
       \/ /\ tokens = <<>>
          /\ pc' = "finish"
          /\ UNCHANGED <<tokens, js, current_conditions, current_temp>>
       \/ /\ js' = [js EXCEPT !.error = TRUE]
          /\ pc' = "finish"
          /\ UNCHANGED <<tokens, current_conditions, current_temp>>
    /\ op' = "json_next"
    /\ UNCHANGED <<req, os, netVars, lastRet, got, doc, outVars>>

\* one round of the token loop.  json_next returns the next token of the
\* document, Done after the last one, or Error.
FetchToken ==
    /\ pc = "json"
    /\ \/ /\ tokens # <<>>
          /\ \E h \in HandleToken(js, current_conditions, current_temp, Head(tokens)) :
                /\ js' = h.js
                /\ current_conditions' = h.cond
                /\ current_temp' = h.temp
          /\ tokens' = Tail(tokens)
          /\ pc' = "json"
       \/ /\ tokens = <<>>
          /\ pc' = "finish"
          /\ UNCHANGED <<tokens, js, current_conditions, current_temp>>
       \/ /\ js' = [js EXCEPT !.error = TRUE]
          /\ pc' = "finish"
          /\ UNCHANGED <<tokens, current_conditions, current_temp>>
    /\ op' = "json_next"
    /\ UNCHANGED <<req, os, netVars, lastRet, got, doc, outVars>>

\* from http_req_free(req) after the loop to `return 0`
FetchFinish ==
    /\ pc = "finish"
    /\ LET f == http_req_free(req, os)
       IN  req' = f.req /\ os' = f.os
    /\ current_conditions' = WithTemp(current_conditions, current_temp)
    /\ current_condition_icon' = IconFor(js.weather_id, js.night)
    /\ redraws' = redraws + 1
    /\ pc' = "returned"
    /\ lastRet' = 0
    /\ op' = "http_req_free"
    /\ UNCHANGED <<netVars, got, doc, tokens, js, current_temp, arg,
                   last_weather_check, loopVars>>

Next ==
    \/ FetchStart
    \/ FetchSkipHeader
    \/ FetchRead
    \/ FetchPeek
    \/ FetchToken
    \/ FetchFinish

Spec == Init /\ [][Next]_vars

FairSpec == Spec /\ WF_vars(Next)

(***************************************************************************)
(* The token loop and the end of fetch_weather for every weather code: the *)
(* call has got its connection and skipped the header, and the document    *)
(* {"weather":[{"id":w,"description":"sky","icon":i}],"main":{"temp":72.5}}*)
(* is about to be parsed.                                                  *)
(***************************************************************************)
WeatherIds == 0..MaxWeatherId
IconCodes == { <<"0","1","d">>, <<"0","1","n">> }

InitIcon ==
    \E w \in WeatherIds, i \in IconCodes :
        LET g == http_get("https", "none", NoRes)
            p == [w |-> 10 * w, d |-> <<"s","k","y">>, i |-> i, t |-> 725,
                  pl |-> <<>>]
        IN  /\ req = g.req
            /\ os = g.os
            /\ net = [pending |-> <<>>, closed |-> FALSE]
            /\ delivered = DefaultStream
            /\ doc = p
            /\ tokens = DocOf(p)
            /\ pc = "json"
            /\ lastRet = 1
            /\ op = "http_req_skip_header"
            /\ rd = [what |-> "data", ret |-> 4, polled |-> TRUE]
            /\ got = <<>>
            /\ js = [state |-> "STATE_BEGIN", str |-> <<>>, weather_id |-> 0,
                     night |-> 0, error |-> FALSE, open |-> TRUE]
            /\ current_conditions = FailedToParse
            /\ current_temp = 0
            /\ current_condition_icon = "ICON_SUN"
            /\ redraws = 0
            /\ arg = <<>>
            /\ clock = 0
            /\ last_weather_check = 0
            /\ weather_check_secs = 60 * 30
            /\ xpending = FALSE
            /\ fetches = <<>>

NextIcon ==
    \/ FetchToken
    \/ FetchFinish

SpecIcon == InitIcon /\ [][NextIcon]_vars

(***************************************************************************)
(* The token loop over documents of other shapes: the two top-level keys   *)
(* in either order, one or more elements in the weather array, a member    *)
(* whose value is of another kind than the API's (a short string, a        *)
(* number, a literal, an object, an array, a string that reads like a      *)
(* key), a member after the API's.  An element is a sequence of members    *)
(* <<key, tokens of the value>>.                                           *)
(***************************************************************************)
RECURSIVE Flat(_)
Flat(ss) == IF ss = <<>> THEN <<>> ELSE Head(ss) \o Flat(Tail(ss))

ObjectOf(e) ==
    <<T_OBJECT>> \o Flat([k \in 1..Len(e) |-> <<T_STRING(e[k][1])>> \o e[k][2]])
    \o <<T_OBJECT_END>>

JsonDoc(p) ==
    LET w == <<T_STRING(S_weather), T_ARRAY>>
                \o Flat([k \in 1..Len(p.elems) |-> ObjectOf(p.elems[k])])
                \o <<T_ARRAY_END>>
        m == <<T_STRING(S_main)>> \o ObjectOf(p.main)
    IN  <<T_OBJECT>> \o (IF p.first = "weather" THEN w \o m ELSE m \o w)
        \o <<T_OBJECT_END>>

AltValues ==
    { <<T_STRING(<<"1">>)>>, <<T_STRING(<<>>)>>, <<T_STRING(<<"o","n">>)>>,
      <<T_NUMBER(30)>>, <<T_NULL>>, <<T_TRUE>>,
      <<T_OBJECT, T_OBJECT_END>>, <<T_ARRAY, T_ARRAY_END>> }

\* the element of the API for a reading
ElementOf(r) ==
    << <<S_id, <<T_NUMBER(r.w)>>>>,
       <<S_description, <<T_STRING(r.d)>>>>,
       <<S_icon, <<T_STRING(r.i)>>>> >>

MainOf(r) == << <<S_temp, <<T_NUMBER(r.t)>>>> >>

\* a member's value replaced, or a member added whose value reads like a key
Varied(e, names) ==
    {e} \cup { [e EXCEPT ![k][2] = v] : k \in 1..Len(e), v \in AltValues }
        \cup { Append(e, <<S_x, <<T_STRING(n)>>>>) : n \in names }

FirstElements ==
    UNION { Varied(ElementOf(r), {S_id, S_description, S_icon}) : r \in Readings }

\* an element after the first: the API's, with its "main" member, or one
\* whose description reads "weather"
LaterElements ==
    LET r == CHOOSE v \in Readings : v.w = 5000
    IN  { ElementOf(r),
          << <<S_id, <<T_NUMBER(r.w)>>>>,
             <<S_main, <<T_STRING(<<"R","a","i","n">>)>>>>,
             <<S_description, <<T_STRING(r.d)>>>>,
             <<S_icon, <<T_STRING(r.i)>>>> >>,
          << <<S_description, <<T_STRING(S_weather)>>>>,
             <<S_id, <<T_NUMBER(6000)>>>> >> }

MainForms ==
    Varied(MainOf(CHOOSE v \in Readings : v.w = 5000), {S_temp})
        \cup { MainOf(r) : r \in Readings }

DocForms ==
    { [first |-> f, elems |-> <<e>> \o l, main |-> m] :
         f \in {"weather", "main"}, e \in FirstElements,
         l \in SeqsUpTo(LaterElements, MaxElems - 1), m \in MainForms }

\* fetch_weather about to call json_next for the first time
InitDoc ==
    \E p \in DocForms :
        LET g == http_get("https", "none", NoRes)
        IN  /\ req = g.req
            /\ os = g.os
            /\ net = [pending |-> <<>>, closed |-> FALSE]
            /\ delivered = DefaultStream
            /\ doc = p
            /\ tokens = JsonDoc(p)
            /\ pc = "json"
            /\ lastRet = 1
            /\ op = "http_req_skip_header"
            /\ rd = [what |-> "data", ret |-> 4, polled |-> TRUE]
            /\ got = <<>>
            /\ js = [state |-> "STATE_BEGIN", str |-> <<>>, weather_id |-> 0,
                     night |-> 0, error |-> FALSE, open |-> TRUE]
            /\ current_conditions = FailedToParse
            /\ current_temp = 0
            /\ current_condition_icon = "ICON_SUN"
            /\ redraws = 0
            /\ arg = <<>>
            /\ clock = 0
            /\ last_weather_check = 0
            /\ weather_check_secs = 60 * 30
            /\ xpending = FALSE
            /\ fetches = <<>>

NextDoc ==
    \/ FetchToken
    \/ FetchFinish

SpecDoc == InitDoc /\ [][NextDoc]_vars

(***************************************************************************)
(* main: the first fetch_weather call and the event loop.  Time passes     *)
(* where the program waits, in poll and in fetch_weather; an X event can   *)
(* arrive with each tick.  Every connection finds a response of            *)
(* MainStreams, without a document.                                        *)
(***************************************************************************)
MainStreams == {DefaultStream, <<>>}

\* main was started with -i secs
InitMain == \E secs \in 1..MaxInterval : BeginWith(<<>>, NoDoc, "main", <<>>, secs)

\* timespecsub(&now, &last_weather_check, &delta); delta.tv_sec
DeltaSec == (clock - last_weather_check) \div TicksPerSec

\* main calls fetch_weather, whose connection will find the response s: the
\* locals of the call are new
CallFetch(s) ==
    /\ fetches' = Append(fetches, clock)
    /\ pc' = "start"
    /\ net' = [pending |-> s, closed |-> FALSE]
    /\ delivered' = <<>>
    /\ got' = <<>>
    /\ tokens' = DocOf(doc)
    /\ js' = [state |-> "STATE_BEGIN", str |-> <<>>, weather_id |-> 0,
              night |-> 0, error |-> FALSE, open |-> FALSE]

\* the fetch_weather() before the loop
MainFirst ==
    /\ pc = "main"
    /\ \E s \in MainStreams : CallFetch(s)
    /\ UNCHANGED <<req, os, lastRet, op, rd, doc, current_conditions,
                   current_temp, current_condition_icon, redraws, arg, clock,
                   last_weather_check, weather_check_secs, xpending>>

\* fetch_weather has returned to main, which goes (back) to the top of the loop
MainReturn ==
    /\ pc = "returned"
    /\ pc' = "loop"
    /\ UNCHANGED <<req, os, netVars, lastRet, op, got, doc, jsonVars, outVars>>

\* `if (!XPending(...))` with nothing pending, up to the test of the exit
\* message after poll.  poll comes back after d ticks: at its timeout (or a
\* tick later), earlier for an X event or a signal, or for the exit message.
MainPoll ==
    /\ pc = "loop"
    /\ ~xpending
    /\ LET sleep_secs == IF DeltaSec > weather_check_secs THEN 0
                         ELSE weather_check_secs - DeltaSec
       IN  \E d \in 0..(MaxClock - clock),
              why \in {"timeout", "event", "signal", "exit"} :
               /\ why = "timeout" => d \in {sleep_secs * TicksPerSec,
                                            sleep_secs * TicksPerSec + 1}
               /\ why \in {"event", "signal"} => d >= 1
               /\ why # "timeout" => d <= sleep_secs * TicksPerSec
               /\ clock' = clock + d
               /\ xpending' = (why = "event")
               /\ pc' = IF why = "exit" THEN "done" ELSE "check"
    /\ UNCHANGED <<req, os, netVars, lastRet, op, got, doc, jsonVars,
                   current_condition_icon, redraws, arg, last_weather_check,
                   weather_check_secs, fetches>>

\* the second test with a started second counted as a whole one
MainCheck_counts_started_second ==
    /\ pc = "check"
    /\ \/ /\ xpending
          /\ pc' = "event"
          /\ UNCHANGED <<netVars, got, jsonVars, redraws, fetches>>
       \/ /\ ~xpending
          /\ (clock - last_weather_check + TicksPerSec - 1) \div TicksPerSec
                >= weather_check_secs
          /\ \E s \in MainStreams : CallFetch(s)
          /\ UNCHANGED <<rd, current_conditions, current_temp, redraws>>
       \/ /\ ~xpending
          /\ (clock - last_weather_check + TicksPerSec - 1) \div TicksPerSec
                < weather_check_secs
          /\ redraws' = redraws + 1
          /\ pc' = "loop"
          /\ UNCHANGED <<netVars, got, jsonVars, fetches>>
    /\ UNCHANGED <<req, os, lastRet, op, doc, current_condition_icon, arg,
                   clock, last_weather_check, weather_check_secs, xpending>>

\* the second `if (!XPending(...))`: fetch_weather when the interval has
\* passed, redraw_icon otherwise; with an event pending, on to XNextEvent
MainCheck ==
    /\ pc = "check"
    /\ \/ /\ xpending
          /\ pc' = "event"
          /\ UNCHANGED <<netVars, got, jsonVars, redraws, fetches>>
       \/ /\ ~xpending
          /\ DeltaSec >= weather_check_secs
          /\ \E s \in MainStreams : CallFetch(s)
          /\ UNCHANGED <<rd, current_conditions, current_temp, redraws>>
       \/ /\ ~xpending
          /\ DeltaSec < weather_check_secs
          /\ redraws' = redraws + 1
          /\ pc' = "loop"
          /\ UNCHANGED <<netVars, got, jsonVars, fetches>>
    /\ UNCHANGED <<req, os, lastRet, op, doc, current_condition_icon, arg,
                   clock, last_weather_check, weather_check_secs, xpending>>

\* XNextEvent and the switch: redraw_icon for an Expose
MainEvent ==
    /\ pc = "event" \/ pc = "loop"
    /\ xpending
    /\ xpending' = FALSE
    /\ \E expose \in BOOLEAN : redraws' = IF expose THEN redraws + 1 ELSE redraws
    /\ pc' = "loop"
    /\ UNCHANGED <<req, os, netVars, lastRet, op, got, doc, jsonVars,
                   current_condition_icon, arg, clock, last_weather_check,
                   weather_check_secs, fetches>>

\* a tick passes while fetch_weather is at work; an X event may arrive
Tick ==
    /\ pc \in {"start", "skip", "json", "finish"}
    /\ clock < MaxClock
    /\ clock' = clock + 1
    /\ \E ev \in BOOLEAN : xpending' = (xpending \/ ev)
    /\ UNCHANGED <<req, os, netVars, pc, lastRet, op, got, doc, jsonVars,
                   current_condition_icon, redraws, arg, last_weather_check,
                   weather_check_secs, fetches>>

NextMain ==
    \/ MainFirst
    \/ MainReturn
    \/ MainPoll
    \/ MainCheck
    \/ MainEvent
    \/ Tick
    \/ FetchStart
    \/ FetchSkipHeader
    \/ FetchRead
    \/ FetchPeek
    \/ FetchToken
    \/ FetchFinish

SpecMain == InitMain /\ [][NextMain]_vars

(***************************************************************************)
(* url_parse applied to a string: a scheme, a separator, a host part, a    *)
(* port part and a path part, any of them possibly missing or malformed.   *)
(***************************************************************************)
UrlSchemes == {S_http, S_https, <<"f","t","p">>}
Separators == {<<":","/","/">>, <<":","/">>, <<>>}
HostChars == {"h", " "}
PortParts == {<<>>, <<":">>, <<":","8">>, <<":","8","0">>}
PathChars == {"/", "a", ":", "8", " "}

UrlInputs == { sc \o sep \o h \o pp \o pa :
                 sc \in UrlSchemes, sep \in Separators,
                 h \in SeqsUpTo(HostChars, MaxHost), pp \in PortParts,
                 pa \in SeqsUpTo(PathChars, MaxPath) }

InitUrl == \E u \in UrlInputs : Begin(<<>>, NoDoc, "url_parse", u)

UrlParse ==
    /\ pc = "url_parse"
    /\ lastRet' = url_parse(arg)
    /\ pc' = "parsed"
    /\ op' = "url_parse"
    /\ UNCHANGED <<req, os, netVars, got, doc, jsonVars, outVars>>

NextUrl == UrlParse

SpecUrl == InitUrl /\ [][NextUrl]_vars

(***************************************************************************)
(* url_encode applied to a string of bytes: every single byte, and the     *)
(* strings over a sample of bytes at and next to the ends of each range.   *)
(***************************************************************************)
EncSample == {1, 32, 37, 45, 46, 47, 48, 57, 58, 64, 65, 90, 91, 95, 96, 97,
              122, 123, 126, 127, 171, 255}
EncInputs == SeqsUpTo(1..255, 1) \cup SeqsUpTo(EncSample, MaxEncLen)

InitEnc == \E u \in EncInputs : Begin(<<>>, NoDoc, "url_encode", u)

UrlEncode ==
    /\ pc = "url_encode"
    /\ lastRet' = url_encode(arg)
    /\ pc' = "encoded"
    /\ op' = "url_encode"
    /\ UNCHANGED <<req, os, netVars, got, doc, jsonVars, outVars>>

NextEnc == UrlEncode

SpecEnc == InitEnc /\ [][NextEnc]_vars

(***************************************************************************)
(* A client of http.h: http_get, then the functions of http.h in any       *)
(* order on the request it returned.  pc is "api" between two calls and    *)
(* "apiskip" while http_req_skip_header loops; "noreq" when http_get       *)
(* returned NULL.                                                          *)
(***************************************************************************)
ApiGet ==
    /\ pc = "start"
    /\ \E scheme \in Schemes, fail \in GetFailures :
          LET g == http_get(scheme, fail, os)
          IN  /\ req' = g.req
              /\ os' = g.os
              /\ pc' = CASE g.result = "req" -> "api"
                         [] g.result = "NULL" -> "noreq"
                         [] g.result = "exit" -> "exited"
    /\ op' = "http_get"
    /\ UNCHANGED <<netVars, lastRet, got, doc, jsonVars, outVars>>

\* http_req_read(req, data, len) into a buffer of the client
ApiRead ==
    /\ pc = "api"
    /\ \E len \in {1, ChunkSize} : \E x \in http_req_read(req, os, net, len) :
          /\ req' = x.req /\ os' = x.os /\ net' = x.net /\ rd' = RdInfo(x)
          /\ delivered' = delivered \o x.data
          /\ lastRet' = x.ret
          /\ pc' = IF x.what = "badfd" THEN "exited" ELSE pc
    /\ op' = "http_req_read"
    /\ UNCHANGED <<got, doc, jsonVars, outVars>>

ApiSkipHeader ==
    /\ pc \in {"api", "apiskip"}
    /\ \E y \in http_req_skip_header(req, os, net) :
          /\ net' = y.x.net
          /\ delivered' = delivered \o y.x.data
          /\ rd' = RdInfo(y.x)
          /\ os' = y.x.os
          /\ \/ /\ y.x.what = "badfd"
                /\ pc' = "exited" /\ req' = y.x.req /\ UNCHANGED lastRet
             \/ /\ y.x.what # "badfd" /\ y.it.status = "again"
                /\ pc' = "apiskip" /\ req' = y.it.req /\ UNCHANGED lastRet
             \/ /\ y.x.what # "badfd" /\ y.it.status = "failed"
                /\ pc' = "api" /\ req' = y.it.req /\ lastRet' = 0
             \/ /\ y.x.what # "badfd" /\ y.it.status = "found"
                /\ pc' = "api" /\ req' = y.it.req /\ lastRet' = 1
             \/ /\ y.x.what # "badfd" /\ y.it.status = "ub"
                /\ \/ pc' = "crashed" /\ req' = y.it.req /\ UNCHANGED lastRet
                   \/ /\ pc' = "api" /\ lastRet' = 1
                      /\ req' = UbFound(y.it.req)
    /\ op' = "http_req_skip_header"
    /\ UNCHANGED <<got, doc, jsonVars, outVars>>

ApiBytePeek ==
    /\ pc = "api"
    /\ \E a \in http_req_byte_peek(req, os, net, rd) : Accessed(a)
    /\ op' = "http_req_byte_peek"
    /\ UNCHANGED <<got, doc, jsonVars, outVars>>

ApiByteRead ==
    /\ pc = "api"
    /\ \E a \in http_req_byte_read(req, os, net, rd) :
          /\ Accessed(a)
          /\ got' = IF a.ret # 0 THEN Append(got, a.ret % 256) ELSE got
    /\ op' = "http_req_byte_read"
    /\ UNCHANGED <<doc, jsonVars, outVars>>

ApiChunkPeek ==
    /\ pc = "api"
    /\ \E a \in http_req_chunk_peek(req, os, net, rd) : Accessed(a)
    /\ op' = "http_req_chunk_peek"
    /\ UNCHANGED <<got, doc, jsonVars, outVars>>

ApiChunkRead ==
    /\ pc = "api"
    /\ \E a \in http_req_chunk_read(req, os, net, rd) : Accessed(a)
    /\ op' = "http_req_chunk_read"
    /\ UNCHANGED <<got, doc, jsonVars, outVars>>

\* http_req_free(req), with the pointer http_get returned (NULL in "noreq").
\* Freeing a block a second time is undefined: the process goes on or dies.
ApiFree ==
    /\ pc \in {"api", "noreq"}
    /\ os.rel["url"] < MaxFrees
    /\ IF pc = "noreq"
       THEN UNCHANGED <<req, os, pc>>
       ELSE LET f == http_req_free(req, os)
            IN  /\ req' = f.req
                /\ os' = f.os
                /\ \/ pc' = pc
                   \/ /\ \E k \in {"msg", "url"} : f.os.rel[k] > f.os.made[k]
                      /\ pc' = "crashed"
    /\ op' = "http_req_free"
    /\ UNCHANGED <<netVars, lastRet, got, doc, jsonVars, outVars>>

NextApi ==
    \/ ApiGet
    \/ ApiRead
    \/ ApiSkipHeader
    \/ ApiBytePeek
    \/ ApiByteRead
    \/ ApiChunkPeek
    \/ ApiChunkRead
    \/ ApiFree

SpecApi == InitApi /\ [][NextApi]_vars

(***************************************************************************)
(* Properties.                                                             *)
(***************************************************************************)
IsPrefix(a, b) == Len(a) <= Len(b) /\ SubSeq(b, 1, Len(a)) = a

\* the whole response: what was read and what is still to come
Response == delivered \o net.pending

\* C1: as long as no read failed, http_req_skip_header is not still looping
\* once the bytes received contain CR LF CR LF, and when it returns (1) the
\* received bytes contain the terminator, chunk_off = 0 and
\* chunk[0 .. chunk_len) is what was received after the first terminator.
C1_SkipHeaderFindsTerminator ==
    req.socket # 0 =>
        /\ pc = "skip" => ~HasTerm(delivered)
        /\ (pc = "json" /\ op = "http_req_skip_header") =>
              /\ HasTerm(delivered)
              /\ req.chunk_off = 0
              /\ req.chunk_len >= 0
              /\ ChunkPrefix(req.chunk, req.chunk_len) = AfterTerm(delivered)

\* C2: an iteration of http_req_skip_header whose http_req_read returns -1
\* ends the call with failure (fetch_weather then returns 1) and leaves
\* chunk_len as the compaction left it.
C2_HardErrorFailsSkip ==
    [][(pc = "skip" /\ rd'.ret = -1) =>
          /\ pc' = "returned"
          /\ lastRet' = 1
          /\ req'.chunk_len = SkipCompact(req).chunk_len]_vars

\* C3: between any two calls of a client of http.h,
\* 0 <= chunk_off <= chunk_len <= 2048.
C3_ChunkBounds ==
    pc = "api" =>
        /\ 0 <= req.chunk_off
        /\ req.chunk_off <= req.chunk_len
        /\ req.chunk_len <= ChunkSize

\* C4: for a response that has a header terminator, the bytes
\* http_req_byte_read has returned are, in order, the first bytes of the
\* body (what follows the first terminator), and a read from the network
\* during the parse happens only when chunk_off has reached chunk_len.
C4_ByteReadsYieldBody ==
    [][HasTerm(Response) =>
          /\ IsPrefix(got', AfterTerm(Response'))
          /\ (pc = "json" /\ delivered' # delivered) =>
                req.chunk_off >= req.chunk_len]_vars

\* C5: a direct http_req_read call that finds no data returns 0 and leaves
\* the socket, the TLS session and the chunk fields as they were; one whose
\* read fails returns -1, closes the socket (and the TLS session if there
\* is one) and zeroes req->socket and req->tls; one made with
\* req->socket = 0 returns -1 without select and without reading.
C5_ReadOutcomes ==
    [][(pc = "api" /\ op' = "http_req_read") =>
          /\ rd'.what = "nodata" =>
                /\ lastRet' = 0
                /\ req' = req /\ os' = os /\ net' = net
          /\ rd'.what = "err" =>
                /\ lastRet' = -1
                /\ req'.socket = 0 /\ req'.tls = FALSE
                /\ ~Live(os', "sock") /\ ~Live(os', "tls")
                /\ os'.rel["sock"] = os.rel["sock"] + 1
                /\ os'.rel["tls"] = os.made["tls"]
          /\ req.socket = 0 =>
                /\ lastRet' = -1
                /\ ~rd'.polled
                /\ req' = req /\ os' = os /\ net' = net
                /\ delivered' = delivered]_vars

\* a failed read invalidated a TLS connection, and a later call found
\* req->socket = 0
C5_Witness ==
    /\ pc = "api" /\ op = "http_req_read"
    /\ rd.what = "nosock" /\ lastRet = -1
    /\ os.rel["tls"] = 1 /\ os.rel["sock"] = 1

\* C6: however often a client calls http_req_free, the socket is closed,
\* the TLS session torn down, the message and the URL freed at most once.
C6_FreeIdempotent == \A k \in Kinds : os.rel[k] <= 1

\* C7: when the response has no CR LF CR LF and the peer has closed or a
\* read has failed, http_req_skip_header comes to return failure, and
\* fetch_weather returns 1.
C7_SkipHeaderEventuallyFails ==
    (pc = "skip" /\ ~HasTerm(Response) /\ (net.closed \/ req.socket = 0))
        ~> (pc = "returned" /\ lastRet = 1)

\* C8: when fetch_weather has returned, every socket, TLS session, URL and
\* message buffer made during the call has been released exactly once, and
\* none is open.
C8_ReleasedOnceAtReturn ==
    pc = "returned" =>
        \A k \in Kinds : os.rel[k] = os.made[k] /\ ~Live(os, k)

\* fetch_weather returned 0 after a read error had closed the TLS session
\* and the socket
C8_Witness ==
    /\ pc = "returned" /\ lastRet = 0
    /\ req.socket = 0
    /\ \A k \in Kinds : os.made[k] = 1

\* C9: after the pass over a whole document (Done reached, no Error), with
\* whatever additional fields it has, the conditions text is the
\* description with its first character in upper case, the weather code,
\* the night flag and the temperature are those of the document.
Capitalized(d) == IF d = <<>> THEN d ELSE <<toupper(d[1])>> \o Tail(d)

C9_ExtractsDespiteExtras ==
    (pc = "finish" /\ doc # NoDoc /\ ~js.error /\ tokens = <<>>) =>
        /\ current_conditions = Capitalized(doc.d)
        /\ js.weather_id * 10 = doc.w
        /\ js.night = (IF doc.i[3] = "n" THEN 1 ELSE 0)
        /\ current_temp = doc.t

\* C10: when json_next returned Error, fetch_weather returns non-zero and
\* the conditions text is the "failed to parse" sentinel.
C10_ErrorReportsFailure ==
    (pc = "returned" /\ js.error) =>
        /\ lastRet # 0
        /\ current_conditions = FailedToParse

\* C11: when http_get returns NULL, and when a read of
\* http_req_skip_header fails, fetch_weather returns non-zero in that step
\* and current_conditions, current_temp and current_condition_icon are
\* what they were, with no redraw.
C11_TransportFailureKeepsState ==
    [][LET frame == /\ current_conditions' = current_conditions
                    /\ current_temp' = current_temp
                    /\ current_condition_icon' = current_condition_icon
                    /\ redraws' = redraws
       IN  /\ (pc = "start" /\ pc' = "returned") => (lastRet' # 0 /\ frame)
           /\ (pc = "skip" /\ rd'.ret = -1) =>
                 (pc' = "returned" /\ lastRet' # 0 /\ frame)]_vars

\* C12: when fetch_weather has returned 0, the icon is rain for a weather
\* code in 200..399 or 500..599, snow for 600..699, clouds for 801..804,
\* and otherwise the moon when night is set and the sun when it is not;
\* 199, 400, 700, 800 and 805 are among the codes left to the sun or moon.
C12_IconByCodeAndNight ==
    (pc = "returned" /\ lastRet = 0) =>
        LET id == js.weather_id
            default == IF js.night # 0 THEN "ICON_MOON" ELSE "ICON_SUN"
        IN  /\ current_condition_icon =
                 (IF id \in (200..399) \cup (500..599) THEN "ICON_RAIN"
                  ELSE IF id \in 600..699 THEN "ICON_SNOW"
                  ELSE IF id \in 801..804 THEN "ICON_CLOUDS"
                  ELSE default)
            /\ id \in {199, 400, 700, 800, 805} =>
                  current_condition_icon = default
            /\ id \in {200, 399, 500, 599} => current_condition_icon = "ICON_RAIN"
            /\ id \in {600, 699} => current_condition_icon = "ICON_SNOW"
            /\ id \in {801, 804} => current_condition_icon = "ICON_CLOUDS"

\* the document had code 800 and a night icon, and the moon was chosen
C12_Witness ==
    /\ pc = "returned" /\ lastRet = 0
    /\ doc.w = 8000 /\ js.weather_id = 800 /\ js.night = 1
    /\ current_condition_icon = "ICON_MOON"

(***************************************************************************)
(* The two forms of a URL, by the positions of their parts: the "://" at   *)
(* i, the ':' of the port at j, the path from k to the end.                *)
(***************************************************************************)
Part(s, a, b) == SubSeq(s, a, b)
NoneIn(t, X) == \A n \in 1..Len(t) : t[n] \notin X
SomeIn(t, X) == \E n \in 1..Len(t) : t[n] \in X

\* scheme "://" host, host not empty and without ':' and '/'
HeadForm(s, i, hostEnd) ==
    /\ i > 1 /\ NoneIn(Part(s, 1, i - 1), {":", "/"})
    /\ MatchAt(s, i, <<":", "/", "/">>)
    /\ hostEnd >= i + 3 /\ hostEnd <= Len(s)
    /\ NoneIn(Part(s, i + 3, hostEnd), {":", "/"})

\* scheme://host:port/path, whatever the path holds after its '/'
PortShape(s, i, j, k) ==
    /\ HeadForm(s, i, j - 1)
    /\ j < Len(s) /\ s[j] = ":"
    /\ k > j + 1 /\ k <= Len(s)
    /\ NoneIn(Part(s, j + 1, k - 1), (PathChars \cup HostChars) \ DigitChars)
    /\ s[k] = "/"

\* scheme://host/path, whatever the path holds after its '/'
NoPortShape(s, i, k) ==
    /\ HeadForm(s, i, k - 1)
    /\ k <= Len(s) /\ s[k] = "/"

Splits(s) == 1..(Len(s) + 1)

\* C13: for scheme://host:port/path and for http(s)://host/path, with a
\* host without ':' and '/' and a path of characters that are not white
\* space, url_parse returns a URL with that host and that path, and with
\* the port given, or 80 for http and 443 for https.
C13_ParseRoundTrip ==
    pc = "parsed" =>
        \A i \in Splits(arg) : MatchAt(arg, i, <<":", "/", "/">>) =>
            \A k \in Splits(arg) :
                (k <= Len(arg) /\ NoneIn(Part(arg, k, Len(arg)), WhiteSpace)) =>
                    /\ \A j \in Splits(arg) : PortShape(arg, i, j, k) =>
                          /\ ~lastRet.null
                          /\ lastRet.host = Part(arg, i + 3, j - 1)
                          /\ lastRet.path = Part(arg, k, Len(arg))
                          /\ lastRet.port = StrToNat(Part(arg, j + 1, k - 1))
                    /\ (/\ NoPortShape(arg, i, k)
                        /\ Part(arg, 1, i - 1) \in {S_http, S_https}) =>
                          /\ ~lastRet.null
                          /\ lastRet.host = Part(arg, i + 3, k - 1)
                          /\ lastRet.path = Part(arg, k, Len(arg))
                          /\ lastRet.port = (IF Part(arg, 1, i - 1) = S_http
                                             THEN 80 ELSE 443)

\* C14: a URL returned by url_parse has the scheme "http" or "https".
C14_SchemeHttpOrHttps ==
    (pc = "parsed" /\ ~lastRet.null) => lastRet.scheme \in {S_http, S_https}

\* C15: the path of a URL returned by url_parse begins with '/'.
C15_PathBeginsWithSlash ==
    (pc = "parsed" /\ ~lastRet.null) =>
        (lastRet.path # <<>> /\ lastRet.path[1] = "/")

\* C16: url_parse returns NULL for a string with nothing after the host or
\* the port, for one without "://", for one of either form with white
\* space in its host or path, and for scheme://host/path with a scheme
\* other than http and https.
NoPathInput(s) ==
    \E i \in Splits(s) :
        \/ HeadForm(s, i, Len(s)) /\ NoneIn(s, WhiteSpace)
        \/ \E j \in Splits(s) :
              /\ HeadForm(s, i, j - 1) /\ NoneIn(s, WhiteSpace)
              /\ j < Len(s) /\ s[j] = ":"
              /\ NoneIn(Part(s, j + 1, Len(s)), (PathChars \cup HostChars) \ DigitChars)

NoSeparatorInput(s) == \A i \in Splits(s) : ~MatchAt(s, i, <<":", "/", "/">>)

WhiteSpaceInput(s) ==
    \E i, k \in Splits(s) :
        /\ \/ \E j \in Splits(s) : PortShape(s, i, j, k)
           \/ NoPortShape(s, i, k) /\ Part(s, 1, i - 1) \in {S_http, S_https}
        /\ SomeIn(Part(s, i + 3, Len(s)), WhiteSpace)

OtherSchemeInput(s) ==
    \E i, k \in Splits(s) :
        /\ NoPortShape(s, i, k)
        /\ NoneIn(s, WhiteSpace)
        /\ Part(s, 1, i - 1) \notin {S_http, S_https}

C16_OtherFormsGiveNull ==
    pc = "parsed" =>
        ((\/ NoPathInput(arg) \/ NoSeparatorInput(arg)
          \/ WhiteSpaceInput(arg) \/ OtherSchemeInput(arg)) => lastRet.null)

\* C17: a call of fetch_weather_read or fetch_weather_peek (made with the
\* chunk in order, chunk_len >= 0) with a byte at hand, in the chunk or
\* read from the connection by this call, returns that byte as a value in
\* 0..255, and a call with none returns a value that is no byte value.
C17_CallbacksByteOrEof ==
    [][(/\ pc = "json" /\ pc' = "json"
        /\ req.chunk_len >= 0
        /\ op' \in {"http_req_byte_read", "http_req_byte_peek"}) =>
          LET buffered == req.chunk_off >= 0 /\ req.chunk_off < req.chunk_len
              fresh == delivered' # delivered
          IN  IF buffered THEN lastRet' = ChunkAt(req.chunk, req.chunk_off)
              ELSE IF fresh THEN lastRet' = delivered'[Len(delivered) + 1]
              ELSE lastRet' \notin 0..255]_vars

C19_JsonClosedAtReturn == pc = "returned" => ~js.open

(***************************************************************************)
(* The characters A-Z a-z 0-9 . _ ~ - and the upper-case hex digits, as    *)
(* byte values.                                                            *)
(***************************************************************************)
SafeBytes == (65..90) \cup (97..122) \cup (48..57) \cup {45, 46, 95, 126}
UpperHex == (48..57) \cup (65..70)
HexVal(c) == IF c <= 57 THEN c - 48 ELSE c - 55

\* the length the first k bytes of s take when encoded
RECURSIVE EncodedLen(_, _)
EncodedLen(s, k) ==
    IF k = 0 THEN 0
    ELSE EncodedLen(s, k - 1) + (IF s[k] \in SafeBytes THEN 1 ELSE 3)

\* C20: in the result of url_encode every byte of [A-Za-z0-9._~-] stands for
\* itself and every other byte is '%' and the two upper-case hex digits of
\* its value; the result holds only characters of [A-Za-z0-9._~%-], its
\* length is the number of unreserved bytes plus three times the number of
\* the others, and a string of unreserved bytes is returned as it is.
C20_EncodeMapsBytes ==
    pc = "encoded" =>
        /\ Len(lastRet) = EncodedLen(arg, Len(arg))
        /\ \A k \in 1..Len(arg) :
              LET at == EncodedLen(arg, k - 1) + 1
              IN  IF arg[k] \in SafeBytes THEN lastRet[at] = arg[k]
                  ELSE /\ lastRet[at] = 37
                       /\ lastRet[at + 1] \in UpperHex
                       /\ lastRet[at + 2] \in UpperHex
                       /\ 16 * HexVal(lastRet[at + 1]) + HexVal(lastRet[at + 2])
                            = arg[k]
        /\ \A n \in 1..Len(lastRet) : lastRet[n] \in SafeBytes \cup {37}
        /\ (\A k \in 1..Len(arg) : arg[k] \in SafeBytes) => lastRet = arg

\* "z/~" was encoded as "z%2F~"
C20_Witness ==
    /\ pc = "encoded"
    /\ arg = <<122, 47, 126>>
    /\ lastRet = <<122, 37, 50, 70, 126>>


(***************************************************************************)
(* C21: each time http_req_skip_header compacts the buffer before a refill *)
(* (chunk_len > 3), the buffer then holds three bytes, and they are the    *)
(* last three bytes it held before, in the same order.  The step is one    *)
(* that comes round again, so that chunk[0..2] are as the compaction left  *)
(* them and the read has put its bytes behind them.                        *)
(***************************************************************************)
C21_CompactionKeepsLastThree ==
    [][(pc = "skip" /\ pc' = "skip" /\ req.chunk_len > 3)
          => /\ req'.chunk_len = 3 + rd'.ret
             /\ \A k \in 0..2 :
                   ChunkAt(req'.chunk, k)
                       = ChunkAt(req.chunk, req.chunk_len - 3 + k)]_vars

(***************************************************************************)
(* C27: with a byte buffered at the cursor, whatever its value,            *)
(* http_req_byte_peek returns it and changes no field of the connection,   *)
(* and http_req_byte_read returns it and moves chunk_off on by one.  The   *)
(* value returned is a char, compared here as the byte it holds.           *)
(***************************************************************************)
C27_BufferedByteAccess ==
    [][(pc = "api" /\ req.chunk_off >= 0 /\ req.chunk_off < req.chunk_len)
          => LET b == ChunkAt(req.chunk, req.chunk_off)
             IN  /\ op' = "http_req_byte_peek"
                       => lastRet' % 256 = b /\ req' = req
                 /\ op' = "http_req_byte_read"
                       => /\ lastRet' % 256 = b
                          /\ req' = [req EXCEPT !.chunk_off = @ + 1]]_vars

(***************************************************************************)
(* C28: whatever the read of an iteration of http_req_skip_header does,    *)
(* every index of chunk the iteration reads, moves or writes is in         *)
(* 0..ChunkSize - 1, and every index the terminator scan compares is below *)
(* the chunk_len the scan runs with.                                       *)
(***************************************************************************)
C28_SkipHeaderIndexesInBounds ==
    pc = "skip" =>
        \A y \in http_req_skip_header(req, os, net) :
            y.x.what # "badfd" =>
                /\ SkipTouched(req, y) \subseteq 0..(ChunkSize - 1)
                /\ y.x.ret # 0 =>
                      \A i \in ScanCompared(SkipFilled(y.x)) :
                          i < SkipFilled(y.x).chunk_len

(***************************************************************************)
(* C22: a capture sub-state lasts one token.  Whatever token is handled in *)
(* IN_WEATHER_ID, IN_WEATHER_DESC or IN_WEATHER_ICON, the machine is back  *)
(* in IN_WEATHER after it; whatever token is handled in IN_MAIN_TEMP, it   *)
(* is back in IN_MAIN; an ObjectEnd handled in IN_WEATHER takes it to      *)
(* BEGIN.                                                                  *)
(***************************************************************************)
Handled == pc = "json" /\ tokens # <<>> /\ tokens' = Tail(tokens)

C22_CaptureLastsOneToken ==
    [][Handled =>
          /\ js.state \in {"STATE_IN_WEATHER_ID", "STATE_IN_WEATHER_DESC",
                           "STATE_IN_WEATHER_ICON"}
                => js'.state = "STATE_IN_WEATHER"
          /\ js.state = "STATE_IN_MAIN_TEMP" => js'.state = "STATE_IN_MAIN"
          /\ (js.state = "STATE_IN_WEATHER" /\ Head(tokens) = T_OBJECT_END)
                => js'.state = "STATE_BEGIN"]_vars

\* an element ended while the machine waited for the value of "id" (the
\* member before was "x": "id"), and the machine went back to IN_WEATHER
C22_Witness ==
    /\ pc = "json"
    /\ doc.first = "weather"
    /\ Len(doc.elems) = 1
    /\ doc.elems[1][Len(doc.elems[1])] = <<S_x, <<T_STRING(S_id)>>>>
    /\ tokens = <<T_ARRAY_END, T_STRING(S_main)>> \o ObjectOf(doc.main)
                   \o <<T_OBJECT_END>>
    /\ js.state = "STATE_IN_WEATHER"

(***************************************************************************)
(* C23: in BEGIN, IN_WEATHER and IN_MAIN a token that is not one of the    *)
(* recognized ones leaves the state and the accumulators (conditions text, *)
(* weather code, night flag, temperature) as they are, and a recognized    *)
(* one changes nothing but the state.                                      *)
(***************************************************************************)
Recognized(state, tok) ==
    \/ state = "STATE_BEGIN" /\ tok \in {T_STRING(S_weather), T_STRING(S_main)}
    \/ /\ state = "STATE_IN_WEATHER"
       /\ tok \in {T_STRING(S_description), T_STRING(S_id), T_STRING(S_icon),
                   T_OBJECT_END}
    \/ state = "STATE_IN_MAIN" /\ tok = T_STRING(S_temp)

C23_OnlyRecognizedTokensAct ==
    [][(Handled /\ js.state \in {"STATE_BEGIN", "STATE_IN_WEATHER",
                                 "STATE_IN_MAIN"})
          => /\ current_conditions' = current_conditions
             /\ current_temp' = current_temp
             /\ js'.weather_id = js.weather_id
             /\ js'.night = js.night
             /\ ~Recognized(js.state, Head(tokens)) => js'.state = js.state]_vars

\* the ObjectEnd of the main object was handled in IN_MAIN after a
\* temperature was captured: the machine is still in IN_MAIN
C23_Witness ==
    /\ pc = "json"
    /\ doc.first = "weather"
    /\ tokens = <<T_OBJECT_END>>
    /\ js.state = "STATE_IN_MAIN"
    /\ current_temp # 0
    /\ js.weather_id # 0

(***************************************************************************)
(* C24: the values extracted do not depend on the order of the two         *)
(* top-level keys.  When the pass over a document has ended with Done,     *)
(* what it has extracted is what a pass over the same document with        *)
(* "weather" and "main" exchanged can extract.                             *)
(***************************************************************************)
PassDone == pc = "finish" /\ tokens = <<>> /\ ~js.error

Exchanged(p) ==
    [p EXCEPT !.first = IF @ = "weather" THEN "main" ELSE "weather"]

C24_KeyOrderIrrelevant ==
    PassDone =>
        Extracted(Step(js, current_conditions, current_temp))
            \in { Extracted(x) : x \in Pass({LoopEntry}, JsonDoc(Exchanged(doc))) }

(***************************************************************************)
(* C25: when the weather array holds several elements, the pass ends with  *)
(* what a pass over the document with the first element alone can extract: *)
(* the weather code, conditions text and night flag of the first element,  *)
(* nothing of a later element, and the temperature of main.                *)
(***************************************************************************)
C25_FirstElementWins ==
    (PassDone /\ Len(doc.elems) > 1) =>
        Extracted(Step(js, current_conditions, current_temp))
            \in { Extracted(x) :
                    x \in Pass({LoopEntry},
                               JsonDoc([doc EXCEPT !.elems = <<@[1]>>])) }

(***************************************************************************)
(* C26: during the pass the conditions text is overwritten only by a       *)
(* String token handled in IN_WEATHER_DESC, that is the token right after  *)
(* "description"; a token of another kind there leaves the text as it was. *)
(***************************************************************************)
C26_ConditionsFromStringOnly ==
    [][(Handled /\ current_conditions' # current_conditions)
          => /\ js.state = "STATE_IN_WEATHER_DESC"
             /\ Head(tokens).type = "JSON_STRING"]_vars

(***************************************************************************)
(* C29: when a String token is handled in IN_WEATHER_ICON, the index read  *)
(* for the night flag lies within the token's string (its characters and   *)
(* the terminator behind them), and a string of fewer than 3 characters    *)
(* gives a night flag of 0.                                                *)
(***************************************************************************)
C29_NightFromTokenOnly ==
    [][(Handled /\ js.state = "STATE_IN_WEATHER_ICON"
                /\ Head(tokens).type = "JSON_STRING")
          => /\ NightIndex <= Len(Head(tokens).str)
             /\ Len(Head(tokens).str) < 3 => js'.night = 0]_vars

(***************************************************************************)
(* C30: in the event loop fetch_weather is called only when no X event is  *)
(* pending and at least weather_check_secs whole seconds have passed since *)
(* the call before began, whatever that call returned; so two successive   *)
(* calls never begin less than weather_check_secs seconds apart, and a     *)
(* call never begins while another is at work.                             *)
(***************************************************************************)
C30_FetchesSpacedByInterval ==
    [][(fetches' # fetches /\ fetches # <<>>)
          => /\ ~xpending
             /\ (clock - fetches[Len(fetches)]) \div TicksPerSec
                    >= weather_check_secs
             /\ pc \notin {"start", "skip", "json", "finish"}]_vars

\* a second call began exactly weather_check_secs after the first, which
\* had failed
C30_Witness ==
    /\ Len(fetches) = 2
    /\ fetches[2] - fetches[1] = weather_check_secs * TicksPerSec
    /\ pc = "start"
    /\ lastRet = 1

====
